---- MODULE Spec2Model ----
(***************************************************************************)
(* Model of sphinxcontrib.openapi: the schema utilities (schema_utils.py)  *)
(* and the path filter / example iteration of the httpdomain renderer.     *)
(*                                                                         *)
(* Python dicts are objects with identity: a dict lives at an address of   *)
(* `heap` and a value that refers to it is Ref(address), so that a shallow *)
(* copy shares the nested dicts of its original and an in-place update is  *)
(* seen through every reference.  A dict keeps its insertion order: it is  *)
(* a sequence of entries [key, val] with distinct keys.  Lists are never   *)
(* updated in place by the code and are kept by value (their dict members  *)
(* are references).  A string the code inspects character by character     *)
(* (a `$ref` link, an example string) is a sequence of tokens.             *)
(***************************************************************************)
EXTENDS Integers, Sequences, FiniteSets, TLC

\* ------------------------------------------------------------------ values
Str(s) == [k |-> "str", s |-> s]
Num(n) == [k |-> "int", n |-> n]
Lst(l) == [k |-> "list", l |-> l]
Ref(a) == [k |-> "dict", a |-> a]
Link(p) == [k |-> "link", p |-> p]
\* A dict written out by value (a parsed document before it is loaded).
Map(m) == [k |-> "map", m |-> m]
E(key, val) == [key |-> key, val |-> val]
None == [k |-> "none"]

\* ------------------------------------------------------- dict primitives
\* k in d
Has(d, key) == \E i \in 1..Len(d) : d[i].key = key
\* d[k]
Get(d, key) == d[CHOOSE i \in 1..Len(d) : d[i].key = key].val
\* d.keys()
Keys(d) == {d[i].key : i \in 1..Len(d)}
\* d[k] = v : an existing key keeps its place, a new one goes last
Put(d, key, val) ==
    IF Has(d, key)
    THEN [i \in 1..Len(d) |-> IF d[i].key = key THEN E(key, val) ELSE d[i]]
    ELSE Append(d, E(key, val))
\* d.pop(k) on a dict that has k: the dict without the entry
Del(d, key) == SelectSeq(d, LAMBDA e : e.key # key)

RECURSIVE UpdateFrom(_, _, _)
UpdateFrom(d, other, i) ==
    IF i > Len(other) THEN d
    ELSE UpdateFrom(Put(d, other[i].key, other[i].val), other, i + 1)
\* d.update(other)
Update(d, other) == UpdateFrom(d, other, 1)

\* --------------------------------------------------------------- the heap
\* TLC hands an operator its arguments unevaluated.  Now(h) has it evaluate
\* the heap h on the spot, so that a long chain of calls that each pass the
\* heap on is evaluated step by step (it changes no value).
Now(h) == Len(h) >= 0

\* A new dict object with content d.
Alloc(h, d) == [h |-> Append(h, d), v |-> Ref(Len(h) + 1)]

\* The document as the YAML/JSON parser builds it: one fresh dict object
\* per mapping of the text.
RECURSIVE LoadVal(_, _), LoadEntries(_, _, _), LoadList(_, _, _)
LoadVal(h, t) ==
    CASE Now(h) ->
    IF t.k = "map"
    THEN LET r == LoadEntries(h, t.m, 1) IN Alloc(r.h, r.d)
    ELSE IF t.k = "list"
    THEN LET r == LoadList(h, t.l, 1) IN [h |-> r.h, v |-> Lst(r.l)]
    ELSE [h |-> h, v |-> t]
LoadEntries(h, m, i) ==
    CASE Now(h) ->
    IF i > Len(m) THEN [h |-> h, d |-> <<>>]
    ELSE LET r1 == LoadVal(h, m[i].val)
             r2 == LoadEntries(r1.h, m, i + 1)
         IN [h |-> r2.h, d |-> <<E(m[i].key, r1.v)>> \o r2.d]
LoadList(h, l, i) ==
    CASE Now(h) ->
    IF i > Len(l) THEN [h |-> h, l |-> <<>>]
    ELSE LET r1 == LoadVal(h, l[i])
             r2 == LoadList(r1.h, l, i + 1)
         IN [h |-> r2.h, l |-> <<r1.v>> \o r2.l]

\* copy.deepcopy(v): fresh dict objects all the way down.
RECURSIVE DeepCopy(_, _), DeepCopyEntries(_, _, _), DeepCopyList(_, _, _)
DeepCopy(h, v) ==
    CASE Now(h) ->
    IF v.k = "dict"
    THEN LET r == DeepCopyEntries(h, h[v.a], 1) IN Alloc(r.h, r.d)
    ELSE IF v.k = "list"
    THEN LET r == DeepCopyList(h, v.l, 1) IN [h |-> r.h, v |-> Lst(r.l)]
    ELSE [h |-> h, v |-> v]
DeepCopyEntries(h, d, i) ==
    CASE Now(h) ->
    IF i > Len(d) THEN [h |-> h, d |-> <<>>]
    ELSE LET r1 == DeepCopy(h, d[i].val)
             r2 == DeepCopyEntries(r1.h, d, i + 1)
         IN [h |-> r2.h, d |-> <<E(d[i].key, r1.v)>> \o r2.d]
DeepCopyList(h, l, i) ==
    CASE Now(h) ->
    IF i > Len(l) THEN [h |-> h, l |-> <<>>]
    ELSE LET r1 == DeepCopy(h, l[i])
             r2 == DeepCopyList(r1.h, l, i + 1)
         IN [h |-> r2.h, l |-> <<r1.v>> \o r2.l]

\* The content a value has in heap h, compared the way Python compares:
\* dict == dict ignores the insertion order, so a dict becomes a function
\* of its keys.
RECURSIVE Content(_, _)
Content(h, v) ==
    IF v.k = "dict"
    THEN LET d == h[v.a]
         IN [k |-> "dict", f |-> [key \in Keys(d) |-> Content(h, Get(d, key))]]
    ELSE IF v.k = "list"
    THEN [k |-> "list", l |-> [i \in 1..Len(v.l) |-> Content(h, v.l[i])]]
    ELSE v

\* ------------------------------------------------------------------ bounds
\* The interpreter's recursion limit (the depth at which Python raises
\* RecursionError), scaled down.
MaxRecursion == 8

\* ------------------------------------------------- results of a function
Ok(h, v) == [h |-> h, v |-> v, err |-> ""]
Fail(h, e) == [h |-> h, v |-> None, err |-> e]

\* (a slip: allOf left out of the test for composition keywords)
CombiningKeysWithoutAllOf == {"oneOf", "anyOf"}
\* {"oneOf", "anyOf", "allOf"} & block.keys()
CombiningKeys == {"oneOf", "anyOf", "allOf"}

\* ---------------------------------------------------------- schema_utils
\* _get_schema_type(schema)
GetSchemaType(d) ==
    IF ~Has(d, "type")
    THEN IF Has(d, "properties") THEN Str("object")
         ELSE IF Has(d, "items") THEN Str("array")
         ELSE None
    ELSE Get(d, "type")

\* str.split("/") of a token sequence: the strings between the slashes.
RECURSIVE SplitSlash(_, _, _)
SplitSlash(p, i, cur) ==
    IF i > Len(p) THEN <<cur>>
    ELSE IF p[i] = "/" THEN <<cur>> \o SplitSlash(p, i + 1, "")
    ELSE SplitSlash(p, i + 1, cur \o p[i])

\* jsonpointer's walk: each part is a member of the dict reached so far.
RECURSIVE WalkPointer(_, _, _, _)
WalkPointer(h, v, parts, i) ==
    IF i > Len(parts) THEN Ok(h, v)
    ELSE IF v.k = "dict" /\ Has(h[v.a], parts[i])
    THEN WalkPointer(h, Get(h[v.a], parts[i]), parts, i + 1)
    ELSE Fail(h, "JsonPointerException")

\* jsonpointer.resolve_pointer(doc, pointer)
ResolvePointer(h, doc, pointer) ==
    LET parts == SplitSlash(pointer, 1, "")
    IN IF pointer = <<>> THEN Ok(h, doc)
       ELSE IF Head(parts) # "" THEN Fail(h, "JsonPointerException")
       ELSE WalkPointer(h, doc, Tail(parts), 1)

\* (a slip: the file part of the link is dropped, a link to another file is
\* looked up in this Document)
ResolveReferenceInThisDocument(h, top, link) ==
    LET hash == CHOOSE i \in 1..Len(link.p) : link.p[i] = "#"
        r == ResolvePointer(h, top, SubSeq(link.p, hash + 1, Len(link.p)))
    IN IF r.err # "" THEN r
       ELSE IF r.v.k = "dict"
       THEN LET c == Alloc(r.h, r.h[r.v.a]) IN Ok(c.h, c.v)
       ELSE IF r.v.k = "list" THEN r
       ELSE Fail(h, "AttributeError")
\* resolve_reference(schema, link): the located node's shallow .copy()
ResolveReference(h, top, link) ==
    IF Len(link.p) > 0 /\ link.p[1] = "#"
    THEN LET r == ResolvePointer(h, top, Tail(link.p))
         IN IF r.err # "" THEN r
            ELSE IF r.v.k = "dict"
            THEN LET c == Alloc(r.h, r.h[r.v.a]) IN Ok(c.h, c.v)
            ELSE IF r.v.k = "list" THEN r
            ELSE Fail(h, "AttributeError")
    ELSE Fail(h, "NotImplementedError")

\* _merge_mappings(base, nxt): deepmerge with the dict strategy "merge" and
\* "override" for everything else.  Two dicts are merged INTO base, key by
\* key; any other pair gives nxt.
RECURSIVE MergeMappings(_, _, _), MergeDict(_, _, _, _)
MergeMappings(h, base, nxt) ==
    CASE Now(h) ->
    IF base.k = "dict" /\ nxt.k = "dict"
    THEN MergeDict(h, base.a, h[nxt.a], 1)
    ELSE [h |-> h, v |-> nxt]
MergeDict(h, a, entries, i) ==
    CASE Now(h) ->
    IF i > Len(entries) THEN [h |-> h, v |-> Ref(a)]
    ELSE LET e == entries[i]
         IN IF ~Has(h[a], e.key)
            THEN MergeDict([h EXCEPT ![a] = Put(@, e.key, e.val)], a, entries, i + 1)
            ELSE LET r == MergeMappings(h, Get(h[a], e.key), e.val)
                 IN MergeDict([r.h EXCEPT ![a] = Put(@, e.key, r.v)], a, entries, i + 1)

\* The oneOf / anyOf branch: a shallow copy without the key, updated with
\* the first member.
PickFirst(h, d, key) ==
    LET members == Get(d, key).l
    IN IF Len(members) = 0 THEN Fail(h, "IndexError")
       ELSE LET c == Alloc(h, Update(Del(d, key), h[members[1].a])) IN Ok(c.h, c.v)

\* The allOf loop: merged_schema = _merge_mappings(merged_schema, deepcopy(item))
RECURSIVE MergeAll(_, _, _, _)
MergeAll(h, merged, items, i) ==
    CASE Now(h) ->
    IF i > Len(items) THEN Ok(h, merged)
    ELSE LET c == DeepCopy(h, items[i])
             r == MergeMappings(c.h, merged, c.v)
         IN MergeAll(r.h, r.v, items, i + 1)

\* resolve_combining_schema(schema)
ResolveCombiningSchema(h, schema) ==
    LET d == h[schema.a]
    IN IF Has(d, "oneOf") THEN PickFirst(h, d, "oneOf")
       ELSE IF Has(d, "anyOf") THEN PickFirst(h, d, "anyOf")
       ELSE IF Has(d, "allOf")
       THEN LET c == Alloc(h, Del(d, "allOf"))
            IN MergeAll(c.h, c.v, Get(d, "allOf").l, 1)
       ELSE IF Has(d, "not")
       THEN LET c == Alloc(h, <<>>) IN Ok(c.h, c.v)
       ELSE Ok(h, schema)

\* rebuild_references(top_level, block)
RECURSIVE RebuildReferences(_, _, _, _), RebuildProperties(_, _, _, _, _, _)
RebuildReferences(h, top, block, depth) ==
    CASE Now(h) ->
    IF depth > MaxRecursion THEN Fail(h, "RecursionError")
    ELSE
    LET d == h[block.a]
        schema_type == GetSchemaType(d)
    IN IF schema_type = Str("object")
       THEN IF Has(d, "properties")
            THEN LET pa == Get(d, "properties").a
                     r == RebuildProperties(h, top, pa, 1, Len(h[pa]), depth + 1)
                 IN IF r.err # "" THEN Fail(r.h, r.err)
                    ELSE LET p == Alloc(r.h, r.d)
                             n == Alloc(p.h, Put(p.h[block.a], "properties", p.v))
                         IN Ok(n.h, n.v)
            ELSE Ok(h, block)
       ELSE IF schema_type = Str("array")
       THEN IF ~Has(d, "items") THEN Fail(h, "KeyError")
            ELSE LET r == RebuildReferences(h, top, Get(d, "items"), depth + 1)
                 IN IF r.err # "" THEN r
                    ELSE LET n == Alloc(r.h, Put(r.h[block.a], "items", r.v))
                         IN Ok(n.h, n.v)
       ELSE IF Keys(d) \cap CombiningKeys # {}
       THEN LET r == ResolveCombiningSchema(h, block)
            IN IF r.err # "" THEN r
               ELSE RebuildReferences(r.h, top, r.v, depth + 1)
       ELSE IF Has(d, "$ref")
       THEN LET r == ResolveReference(h, top, Get(d, "$ref"))
            IN IF r.err # "" THEN r
               ELSE RebuildReferences(r.h, top, r.v, depth + 1)
       ELSE Ok(h, block)
\* The loop over block["properties"].items(): the dict is read as the loop
\* goes, and a dict whose size changed under the loop is a RuntimeError.
RebuildProperties(h, top, pa, i, size, depth) ==
    CASE Now(h) ->
    IF Len(h[pa]) # size THEN [h |-> h, d |-> <<>>, err |-> "RuntimeError"]
    ELSE IF i > Len(h[pa]) THEN [h |-> h, d |-> <<>>, err |-> ""]
    ELSE LET e == h[pa][i]
             r1 == RebuildReferences(h, top, e.val, depth)
         IN IF r1.err # "" THEN [h |-> r1.h, d |-> <<>>, err |-> r1.err]
            ELSE LET r2 == RebuildProperties(r1.h, top, pa, i + 1, size, depth)
                 IN [h |-> r2.h, d |-> <<E(e.key, r1.v)>> \o r2.d, err |-> r2.err]

\* ------------------------------------------------------------- documents
TString == Map(<<E("type", Str("string"))>>)
TInteger == Map(<<E("type", Str("integer"))>>)
TEnum == Map(<<E("enum", Lst(<<Str("a"), Str("b")>>))>>)
TUntyped == Map(<<E("description", Str("anything"))>>)
TNot == Map(<<E("not", TString)>>)
RefTo(n) == Map(<<E("$ref", Link(<<"#", "/", n>>))>>)
RefExternal == Map(<<E("$ref", Link(<<"other.yaml", "#", "/", "S">>))>>)
\* A reference to another file, to a schema this Document has not.
RefElsewhere == Map(<<E("$ref", Link(<<"other.yaml", "#", "/", "U">>))>>)
TObject(required, props) ==
    Map(<<E("type", Str("object")), E("required", Lst(required)), E("properties", Map(props))>>)
TArray(items) == Map(<<E("type", Str("array")), E("items", items)>>)
OneOf(members) == Map(<<E("oneOf", Lst(members))>>)
AnyOf(members) == Map(<<E("anyOf", Lst(members))>>)
AllOf(members) == Map(<<E("allOf", Lst(members))>>)
\* The entries of two dicts written one after the other (distinct keys).
Both(a, b) == Map(a.m \o b.m)

\* The families below are sequences: a Document is picked by its index.
Simple == <<TString, TEnum, TUntyped, TNot, RefTo("T")>>
\* With the reference back to "S": the schema of a property or of an item.
Leaves == Simple \o <<RefTo("S")>>
Inner == <<TObject(<<Str("r")>>, <<E("r", TInteger)>>),
           Map(<<E("properties", Map(<<E("r", TString)>>))>>),
           TArray(TString)>>
Combined ==
    <<OneOf(<<TString, TInteger>>),
      AnyOf(<<RefTo("T")>>),
      AllOf(<<TObject(<<>>, <<E("r", TString)>>), TObject(<<Str("s")>>, <<E("s", TInteger)>>)>>),
      OneOf(<<AnyOf(<<TString>>)>>),
      AnyOf(<<AllOf(<<TInteger>>), TString>>),
      AllOf(<<OneOf(<<TInteger>>)>>),
      AllOf(<<TNot>>),
      Both(OneOf(<<TInteger>>), AnyOf(<<TString>>)),
      Both(AnyOf(<<TInteger>>), AllOf(<<TString>>)),
      Both(OneOf(<<TInteger>>), TNot),
      Both(AllOf(<<TObject(<<>>, <<E("p", TInteger), E("r", TString)>>)>>),
           Map(<<E("properties", Map(<<E("p", TString)>>))>>)),
      Both(TObject(<<Str("p")>>, <<E("p", RefTo("T"))>>),
           AllOf(<<TObject(<<>>, <<E("p", TInteger), E("r", TString)>>)>>)),
      Both(RefTo("T"), OneOf(<<TInteger>>)),
      Both(TArray(RefTo("T")), AnyOf(<<TInteger>>))>>
Requireds == <<(<<>>), <<Str("p")>>, <<Str("q"), Str("p")>>>>
FirstProps == Leaves \o Inner \o <<OneOf(<<TString, TInteger>>)>>
SecondProps == <<TInteger, RefTo("T")>>
\* The (i, j, k)-th object: required list i, property p of schema j, q of schema k.
Objects ==
    [n \in 1..(Len(Requireds) * Len(FirstProps) * Len(SecondProps)) |->
        LET i == ((n - 1) % Len(Requireds)) + 1
            j == (((n - 1) \div Len(Requireds)) % Len(FirstProps)) + 1
            k == ((n - 1) \div (Len(Requireds) * Len(FirstProps))) + 1
        IN TObject(Requireds[i], <<E("p", FirstProps[j]), E("q", SecondProps[k])>>)]
    \o [n \in 1..Len(Leaves) |-> Map(<<E("properties", Map(<<E("p", Leaves[n])>>))>>)]
    \o <<Map(<<E("type", Str("object"))>>),
         TObject(<<Str("q")>>, <<E("p", TString), E("q", RefExternal)>>),
         TObject(<<Str("p")>>, <<E("p", RefElsewhere), E("q", TInteger)>>)>>
Arrays ==
    [n \in 1..Len(Leaves \o Inner) |-> TArray((Leaves \o Inner)[n])]
    \o <<Map(<<E("items", TString)>>), Map(<<E("items", RefTo("S"))>>),
         Map(<<E("type", Str("array"))>>), TArray(RefExternal)>>
\* The schemas a Document holds under "S" and under "T".
SchemasS == Simple \o <<RefExternal, RefTo("U")>> \o Objects \o Arrays \o Combined
SchemasT ==
    <<TString,
      TObject(<<Str("r")>>, <<E("r", TEnum)>>),
      Both(Map(<<E("properties", Map(<<E("r", TString)>>))>>),
           AllOf(<<TObject(<<>>, <<E("r", TEnum), E("s", TInteger)>>)>>))>>
Document(i, j) == Map(<<E("S", SchemasS[i]), E("T", SchemasT[j])>>)

\* ----------------------------------------------------------------- state
VARIABLES
    heap,       \* the dict objects: address -> entries
    top_level,  \* the Document (a reference to its root dict)
    document,   \* the Document's content when it was loaded
    schema,     \* the schema the caller holds (None before it took one)
    source,     \* where the caller got it: "document", or the function that returned it
    pc,         \* "idle", or "traverse" while a traverse_schema generator is being consumed
    stack,      \* the frames of the generator, innermost last
    yielded,    \* the descriptors the generator has yielded so far
    last,       \* the function called last ("" before the first call)
    err,        \* the exception the last call ended with ("" when it returned)
    result,     \* the value the last call returned
    calls       \* the number of calls made so far

\* The renderer (HttpdomainRenderer) and the spec it is given.
VARIABLES
    options,    \* the renderer's options: include, exclude, http-methods-order
    spec_paths, \* spec["paths"]: path -> path item, in the order of the spec
    iterable,   \* the argument of the last filter_paths call
    path_keys,  \* what the last filter_paths call returned
    markup,     \* the operation directives rendered so far: (method, endpoint)
    step        \* "idle", "filtered" after filter_paths, "rendered" after a rendering

\* The example synthesizer (example_from_schema).
VARIABLES
    ex_schema,  \* the schema an example is asked for (None before the call)
    ex_result   \* the outcome of the call: the exception or the value

\* The example iterator (_iterexamples) and what it is given.
VARIABLES
    media_types,            \* content type -> media type, as the iterator has left them
    given_media_types,      \* the media types as they were given
    example_preference,     \* the content types to try first
    examples_from_schemas,  \* whether an example may be made from a schema
    reachable,              \* the URLs a GET of which succeeds
    remaining,              \* the content types the iterator has still to try
    examples,               \* the (content type, example) pairs yielded so far
    log,                    \* the warnings and errors logged so far
    iterating,              \* "idle", "running", "done"
    raised                  \* the exception the iterator ended with ("" if none)

schemaVars == <<heap, top_level, document, schema, source, pc, stack, yielded, last, err, result, calls>>
rendererVars == <<options, spec_paths, iterable, path_keys, markup, step>>
exampleVars == <<ex_schema, ex_result>>
iteratorVars == <<media_types, given_media_types, example_preference, examples_from_schemas,
                  reachable, remaining, examples, log, iterating, raised>>
vars == <<schemaVars, rendererVars, exampleVars, iteratorVars>>

\* _iterexamples has not been called; there are no media types.
IteratorIdle ==
    /\ media_types = <<>>
    /\ given_media_types = <<>>
    /\ example_preference = <<>>
    /\ examples_from_schemas = FALSE
    /\ reachable = {}
    /\ remaining = <<>>
    /\ examples = <<>>
    /\ log = <<>>
    /\ iterating = "idle"
    /\ raised = ""

\* A renderer without options that has been given no spec.
RendererIdle ==
    /\ options = [include |-> None, exclude |-> None, order |-> <<>>]
    /\ spec_paths = <<>>
    /\ iterable = <<>>
    /\ path_keys = <<>>
    /\ markup = <<>>
    /\ step = "idle"

\* No example has been asked for.
ExampleIdle ==
    /\ ex_schema = None
    /\ ex_result = None

\* No schema utility has been called; no Document is loaded.
SchemaIdle ==
    /\ heap = <<>>
    /\ top_level = None
    /\ document = None
    /\ schema = None
    /\ source = ""
    /\ pc = "idle"
    /\ stack = <<>>
    /\ yielded = <<>>
    /\ last = ""
    /\ err = ""
    /\ result = None
    /\ calls = 0

\* How many calls a behaviour makes on one Document.
MaxCalls == 2

StartNames == {"", "body"}
Links == {Link(<<"#", "/", "S">>), Link(<<"#", "/", "T">>),
          Link(<<"#", "/", "U">>), Link(<<"other.yaml", "#", "/", "S">>)}

Init ==
    /\ \E i \in 1..Len(SchemasS), j \in 1..Len(SchemasT) :
          LET r == LoadVal(<<>>, Document(i, j))
          IN /\ heap = r.h
             /\ top_level = r.v
             /\ document = Content(r.h, r.v)
    /\ schema = None
    /\ source = ""
    /\ pc = "idle"
    /\ stack = <<>>
    /\ yielded = <<>>
    /\ last = ""
    /\ err = ""
    /\ result = None
    /\ calls = 0
    /\ RendererIdle
    /\ ExampleIdle
    /\ IteratorIdle

CanCall == pc = "idle" /\ calls < MaxCalls

\* The caller takes a schema straight from the Document: document[key].
TakeSchema ==
    /\ pc = "idle"
    /\ schema = None
    /\ \E key \in Keys(heap[top_level.a]) : schema' = Get(heap[top_level.a], key)
    /\ source' = "document"
    /\ UNCHANGED <<rendererVars, exampleVars, iteratorVars, heap, top_level, document, pc, stack, yielded, last, err, result, calls>>

\* schema = resolve_reference(document, link)
CallResolveReference ==
    /\ CanCall
    /\ schema = None
    /\ \E link \in Links :
          LET r == ResolveReference(heap, top_level, link)
          IN /\ heap' = r.h
             /\ err' = r.err
             /\ result' = r.v
             /\ schema' = r.v
    /\ source' = "resolve_reference"
    /\ last' = "resolve_reference"
    /\ calls' = calls + 1
    /\ UNCHANGED <<rendererVars, exampleVars, iteratorVars, top_level, document, pc, stack, yielded>>

\* result = resolve_combining_schema(schema)
CallResolveCombiningSchema ==
    /\ CanCall
    /\ schema # None
    /\ LET r == ResolveCombiningSchema(heap, schema)
       IN /\ heap' = r.h
          /\ err' = r.err
          /\ result' = r.v
    /\ last' = "resolve_combining_schema"
    /\ calls' = calls + 1
    /\ UNCHANGED <<rendererVars, exampleVars, iteratorVars, top_level, document, schema, source, pc, stack, yielded>>

\* The caller goes on with what the last call returned.
KeepResult ==
    /\ pc = "idle"
    /\ last \in {"resolve_combining_schema", "rebuild_references"}
    /\ err = ""
    /\ result # schema
    /\ schema' = result
    /\ source' = last
    /\ UNCHANGED <<rendererVars, exampleVars, iteratorVars, heap, top_level, document, pc, stack, yielded, last, err, result, calls>>

\* result = rebuild_references(document, schema)
CallRebuildReferences ==
    /\ CanCall
    /\ schema # None
    /\ LET r == RebuildReferences(heap, top_level, schema, 1)
       IN /\ heap' = r.h
          /\ err' = r.err
          /\ result' = r.v
    /\ last' = "rebuild_references"
    /\ calls' = calls + 1
    /\ UNCHANGED <<rendererVars, exampleVars, iteratorVars, top_level, document, schema, source, pc, stack, yielded>>

\* What the caller of resolve_reference does to the node it was returned
\* (the renderer rewrites the schemas it renders).  The caller makes no call
\* after it: pc = "rewritten".
\* node[key] = "rewritten"
RewriteKey ==
    /\ pc = "idle"
    /\ last = "resolve_reference"
    /\ err = ""
    /\ \E key \in Keys(heap[result.a]) \cup {"description"} :
          heap' = [heap EXCEPT ![result.a] = Put(@, key, Str("rewritten"))]
    /\ pc' = "rewritten"
    /\ UNCHANGED <<rendererVars, exampleVars, iteratorVars, top_level, document, schema, source,
                   stack, yielded, last, err, result, calls>>

\* node["properties"][key] = {"type": "boolean"}
RewriteProperty ==
    /\ pc = "idle"
    /\ last = "resolve_reference"
    /\ err = ""
    /\ Has(heap[result.a], "properties")
    /\ LET properties == Get(heap[result.a], "properties")
           new == Alloc(heap, <<E("type", Str("boolean"))>>)
       IN \E key \in Keys(heap[properties.a]) :
             heap' = [new.h EXCEPT ![properties.a] = Put(@, key, new.v)]
    /\ pc' = "rewritten"
    /\ UNCHANGED <<rendererVars, exampleVars, iteratorVars, top_level, document, schema, source,
                   stack, yielded, last, err, result, calls>>

\* ------------------------------------------------------- traverse_schema
\* A frame of the generator.  "call": traverse_schema(top_level, block,
\* name, is_required) about to run its body.  "wait": a generator suspended
\* in a `yield from` that is the last thing it does.  "iter": the object
\* branch inside its loop over the properties dict at address pa.
\* `origin` records how the call came about: Origin("start", 0, "") for the
\* caller's, Origin("property", pa, key) for the call on the property `key`
\* of the object at address pa, Origin("combining" / "items", 0, "") for the
\* other two recursive calls; the call that follows a `$ref` keeps the
\* origin of the call it replaces.
Origin(how, parent, key) == [how |-> how, parent |-> parent, key |-> key]
CallFrame(block, name, is_required, origin) ==
    [t |-> "call", block |-> block, name |-> name, is_required |-> is_required,
     origin |-> origin]
WaitFrame == [t |-> "wait"]
IterFrame(object, pa, i, size, name, required) ==
    [t |-> "iter", object |-> object, pa |-> pa, i |-> i, size |-> size, name |-> name,
     required |-> required]

Top == stack[Len(stack)]
Running == pc = "traverse" /\ stack # <<>>
AtCall == Running /\ Top.t = "call"
Block == heap[Top.block.a]
Front(s) == SubSeq(s, 1, Len(s) - 1)

\* A generator that returns is dropped, and so is every generator that was
\* only waiting for it.
RECURSIVE Unwind(_)
Unwind(s) == IF s # <<>> /\ s[Len(s)].t = "wait" THEN Unwind(Front(s)) ELSE s

\* The generator ends: the exception e propagates to the consumer, or
\* (e = "") the consumer sees StopIteration.
Ends(e) ==
    /\ pc' = "idle"
    /\ stack' = <<>>
    /\ err' = e

\* The frames go on as s.
GoesOn(s) ==
    IF s = <<>> THEN Ends("")
    ELSE /\ stack' = s
         /\ UNCHANGED <<pc, err>>

\* (a slip: the object's own list is not read)
RequiredNamesIgnored(d) == {}
\* required = set(block.get("required", []))
RequiredNames(d) ==
    IF Has(d, "required")
    THEN {Get(d, "required").l[i] : i \in 1..Len(Get(d, "required").l)}
    ELSE {}

\* yield name, block, is_required -- by the branch `via` of the call `frame`.
\* Beside the three values the descriptor records what the heap h holds as
\* it is yielded: the schema's keys and, for a property, whether its object
\* lists it as required.
Descriptor(h, frame, block, via) ==
    [name |-> frame.name, schema |-> block, required |-> frame.is_required,
     keys |-> Keys(h[block.a]), via |-> via, origin |-> frame.origin.how,
     listed |-> /\ frame.origin.how = "property"
                /\ Has(h[frame.origin.parent], "required")
                /\ \E i \in 1..Len(Get(h[frame.origin.parent], "required").l) :
                      Get(h[frame.origin.parent], "required").l[i] = Str(frame.origin.key)]

\* `yield from traverse_schema(...)` as the last statement of the top frame.
Descend(frame) ==
    IF Len(stack) >= MaxRecursion THEN Ends("RecursionError")
    ELSE GoesOn(Append(Front(stack), WaitFrame) \o <<frame>>)

\* (a slip: the default of is_required is True)
IsRequiredByDefault == TRUE
\* def traverse_schema(top_level, block, name, is_required=False)
IsRequiredDefault == FALSE

\* for descriptor in traverse_schema(document, schema, name, is_required)
CallTraverseSchema ==
    /\ CanCall
    /\ schema # None
    /\ \E name \in StartNames, is_required \in BOOLEAN :
          stack' = <<CallFrame(schema, name, is_required, Origin("start", 0, ""))>>
    /\ pc' = "traverse"
    /\ yielded' = <<>>
    /\ last' = "traverse_schema"
    /\ err' = ""
    /\ result' = None
    /\ calls' = calls + 1
    /\ UNCHANGED <<rendererVars, exampleVars, iteratorVars, heap, top_level, document, schema, source>>

\* if "$ref" in block
TraverseRef ==
    /\ AtCall
    /\ Has(Block, "$ref")
    /\ LET r == ResolveReference(heap, top_level, Get(Block, "$ref"))
       IN /\ heap' = r.h
          /\ IF r.err # "" THEN Ends(r.err)
             ELSE Descend(CallFrame(r.v, Top.name, Top.is_required, Top.origin))
    /\ UNCHANGED <<rendererVars, exampleVars, iteratorVars, top_level, document, schema, source, yielded, last, result, calls>>

\* elif {"oneOf", "anyOf", "allOf"} & block.keys()
TraverseCombining ==
    /\ AtCall
    /\ ~Has(Block, "$ref")
    /\ Keys(Block) \cap CombiningKeys # {}
    /\ LET r == ResolveCombiningSchema(heap, Top.block)
       IN /\ heap' = r.h
          /\ IF r.err # "" THEN Ends(r.err)
             ELSE Descend(CallFrame(r.v, Top.name, IsRequiredDefault, Origin("combining", 0, "")))
    /\ UNCHANGED <<rendererVars, exampleVars, iteratorVars, top_level, document, schema, source, yielded, last, result, calls>>

NoRefNoCombining == ~Has(Block, "$ref") /\ Keys(Block) \cap CombiningKeys = {}

\* elif "not" in block: yield name, {}, is_required
TraverseNot ==
    /\ AtCall
    /\ NoRefNoCombining
    /\ Has(Block, "not")
    /\ LET c == Alloc(heap, <<>>)
       IN /\ heap' = c.h
          /\ yielded' = Append(yielded, Descriptor(c.h, Top, c.v, "not"))
    /\ GoesOn(Unwind(Front(stack)))
    /\ UNCHANGED <<rendererVars, exampleVars, iteratorVars, top_level, document, schema, source, last, result, calls>>

Plain == NoRefNoCombining /\ ~Has(Block, "not")

\* elif schema_type == "object": the node itself when it has a name, then
\* the loop over its properties begins
TraverseObject ==
    /\ AtCall
    /\ Plain
    /\ GetSchemaType(Block) = Str("object")
    /\ yielded' = IF Top.name # ""
                  THEN Append(yielded, Descriptor(heap, Top, Top.block, "object"))
                  ELSE yielded
    /\ LET required == RequiredNames(Block)
       IN IF Has(Block, "properties")
          THEN LET pa == Get(Block, "properties").a
               IN /\ heap' = heap
                  /\ stack' = Append(Front(stack), IterFrame(Top.block.a, pa, 1, Len(heap[pa]), Top.name, required))
          ELSE LET c == Alloc(heap, <<>>)
               IN /\ heap' = c.h
                  /\ stack' = Append(Front(stack), IterFrame(Top.block.a, c.v.a, 1, 0, Top.name, required))
    /\ UNCHANGED <<rendererVars, exampleVars, iteratorVars, top_level, document, schema, source, pc, last, err, result, calls>>

\* One turn of `for key, value in block.get("properties", {}).items()`:
\* the next property is traversed, or the loop (and the generator) ends.
TraverseProperty ==
    /\ Running
    /\ Top.t = "iter"
    /\ IF Len(heap[Top.pa]) # Top.size THEN Ends("RuntimeError")
       ELSE IF Top.i > Len(heap[Top.pa]) THEN GoesOn(Unwind(Front(stack)))
       ELSE IF Len(stack) >= MaxRecursion THEN Ends("RecursionError")
       ELSE LET e == heap[Top.pa][Top.i]
                name == IF Top.name # "" THEN Top.name \o "." \o e.key ELSE e.key
            IN GoesOn(Append(Front(stack), [Top EXCEPT !.i = @ + 1])
                      \o <<CallFrame(e.val, name, Str(e.key) \in Top.required,
                                  Origin("property", Top.object, e.key))>>)
    /\ UNCHANGED <<rendererVars, exampleVars, iteratorVars, heap, top_level, document, schema, source, yielded, last, result, calls>>

\* (a slip: the items are traversed at the path of the array)
ItemsNameOfArray(name) == name
\* f"{name}[]"
ItemsName(name) == name \o "[]"

\* elif schema_type == "array": traverse block["items"] as name[]
TraverseArray ==
    /\ AtCall
    /\ Plain
    /\ GetSchemaType(Block) = Str("array")
    /\ IF ~Has(Block, "items") THEN Ends("KeyError")
       ELSE Descend(CallFrame(Get(Block, "items"), ItemsName(Top.name), IsRequiredDefault, Origin("items", 0, "")))
    /\ UNCHANGED <<rendererVars, exampleVars, iteratorVars, heap, top_level, document, schema, source, yielded, last, result, calls>>

NotContainer == Plain /\ GetSchemaType(Block) \notin {Str("object"), Str("array")}

\* elif "enum" in block: yield name, block, is_required
TraverseEnum ==
    /\ AtCall
    /\ NotContainer
    /\ Has(Block, "enum")
    /\ yielded' = Append(yielded, Descriptor(heap, Top, Top.block, "enum"))
    /\ GoesOn(Unwind(Front(stack)))
    /\ UNCHANGED <<rendererVars, exampleVars, iteratorVars, heap, top_level, document, schema, source, last, result, calls>>

\* elif schema_type is not None: yield name, block, is_required
TraversePrimitive ==
    /\ AtCall
    /\ NotContainer
    /\ ~Has(Block, "enum")
    /\ GetSchemaType(Block) # None
    /\ yielded' = Append(yielded, Descriptor(heap, Top, Top.block, "primitive"))
    /\ GoesOn(Unwind(Front(stack)))
    /\ UNCHANGED <<rendererVars, exampleVars, iteratorVars, heap, top_level, document, schema, source, last, result, calls>>

\* No branch matches: the schema yields nothing.
TraverseUntyped ==
    /\ AtCall
    /\ NotContainer
    /\ ~Has(Block, "enum")
    /\ GetSchemaType(Block) = None
    /\ GoesOn(Unwind(Front(stack)))
    /\ UNCHANGED <<rendererVars, exampleVars, iteratorVars, heap, top_level, document, schema, source, yielded, last, result, calls>>

Next ==
    \/ TakeSchema
    \/ CallResolveReference
    \/ CallResolveCombiningSchema
    \/ KeepResult
    \/ CallRebuildReferences
    \/ RewriteKey
    \/ RewriteProperty
    \/ CallTraverseSchema
    \/ TraverseRef
    \/ TraverseCombining
    \/ TraverseNot
    \/ TraverseObject
    \/ TraverseProperty
    \/ TraverseArray
    \/ TraverseEnum
    \/ TraversePrimitive
    \/ TraverseUntyped

Spec == Init /\ [][Next]_vars

\* ------------------------------------------------------- the renderer
\* A path is the sequence of its characters; a pattern is a sequence of
\* items, each a literal character or ".+" (one or more characters).
\* r.match(path): the pattern matches at the START of the path, and the
\* path may go on after the match.
RECURSIVE MatchFrom(_, _, _, _)
MatchFrom(regex, i, path, j) ==
    IF i > Len(regex) THEN TRUE
    ELSE IF regex[i] = ".+"
    THEN \E k \in (j + 1)..(Len(path) + 1) : MatchFrom(regex, i + 1, path, k)
    ELSE /\ j <= Len(path)
         /\ path[j] = regex[i]
         /\ MatchFrom(regex, i + 1, path, j + 1)

Match(regex, path) == MatchFrom(regex, 1, path, 1)

\* includes: the compiled `include` patterns, or [re.compile(".+")]
IncludePatterns(opts) ==
    IF opts.include # None /\ opts.include.l # <<>> THEN opts.include.l ELSE <<<<".+">>>>

\* (a slip: the exclude option is not read)
NoExcludePatterns(opts) == <<>>
\* excludes: the compiled `exclude` patterns, or []
ExcludePatterns(opts) ==
    IF opts.exclude # None /\ opts.exclude.l # <<>> THEN opts.exclude.l ELSE <<>>

\* any(r.match(path) for r in regexes)
AnyMatch(regexes, path) == \E i \in 1..Len(regexes) : Match(regexes[i], path)

\* The loop of filter_paths over iterable[i..], path_keys being the list
\* built so far.
RECURSIVE FilterLoop(_, _, _, _)
FilterLoop(opts, paths, i, keys) ==
    IF i > Len(paths) THEN keys
    ELSE LET path == paths[i]
             take == /\ AnyMatch(IncludePatterns(opts), path)
                     /\ ~AnyMatch(ExcludePatterns(opts), path)
                     /\ \A n \in 1..Len(keys) : keys[n] # path
         IN FilterLoop(opts, paths, i + 1, IF take THEN Append(keys, path) ELSE keys)

FilterPaths(opts, paths) == FilterLoop(opts, paths, 1, <<>>)

\* _iterinorder(iterable, order_by): sorted() by the position in order_by,
\* the items order_by does not name last; the sort is stable.
Priority(order_by, value) ==
    IF \E i \in 1..Len(order_by) : order_by[i] = value
    THEN CHOOSE i \in 1..Len(order_by) :
            order_by[i] = value /\ \A n \in 1..(i - 1) : order_by[n] # value
    ELSE Len(order_by) + 1

RECURSIVE IterInOrder(_, _, _)
IterInOrder(items, order_by, p) ==
    IF p > Len(order_by) + 1 THEN <<>>
    ELSE SelectSeq(items, LAMBDA value : Priority(order_by, value) = p)
         \o IterInOrder(items, order_by, p + 1)

KeySeq(d) == [i \in 1..Len(d) |-> d[i].key]

\* What render_paths removes from a path item before it reads the operations.
NotOperations == {"parameters", "summary", "description", "servers"}

RECURSIVE PopAll(_, _)
PopAll(d, keys) ==
    IF keys = {} THEN d
    ELSE LET key == CHOOSE key \in keys : TRUE
         IN PopAll(Del(d, key), keys \ {key})

\* operation["parameters"] = [the common parameters the operation does not
\* have itself] + operation["parameters"]
WithCommonParameters(common_parameters, operation) ==
    LET own == IF Has(operation, "parameters") THEN Get(operation, "parameters").l ELSE <<>>
        missing == SelectSeq(common_parameters,
                             LAMBDA parameter : \A n \in 1..Len(own) : own[n] # parameter)
    IN Put(operation, "parameters", Lst(missing \o own))

\* The body of render_paths' loop for one path item: the item as the
\* loop leaves it and the directives it yields.
RECURSIVE RenderMethods(_, _, _, _, _, _)
RenderMethods(endpoint, path, common_parameters, methods, i, lines) ==
    IF i > Len(methods) THEN [path |-> path, lines |-> lines]
    ELSE LET method == methods[i]
             operation == WithCommonParameters(common_parameters, Get(path, method).m)
         IN RenderMethods(endpoint, Put(path, method, Map(operation)), common_parameters,
                          methods, i + 1,
                          Append(lines, [method |-> method, endpoint |-> endpoint]))

RenderPath(opts, endpoint, item) ==
    LET common_parameters == IF Has(item, "parameters") THEN Get(item, "parameters").l ELSE <<>>
        path == PopAll(item, NotOperations)
    IN RenderMethods(endpoint, path, common_parameters,
                     IterInOrder(KeySeq(path), opts.order, 1), 1, <<>>)

\* render_paths({k: spec_paths[k] for k in paths}): the path items of the
\* spec are the ones the loop works on.
RECURSIVE RenderPaths(_, _, _, _, _)
RenderPaths(opts, paths_of_spec, keys, i, lines) ==
    IF i > Len(keys) THEN [paths |-> paths_of_spec, lines |-> lines]
    ELSE LET r == RenderPath(opts, keys[i], Get(paths_of_spec, keys[i]).m)
         IN RenderPaths(opts, Put(paths_of_spec, keys[i], Map(r.path)), keys, i + 1,
                        lines \o r.lines)

\* The paths of the specs, and the patterns of the options.
Paths == {<<>>, <<"/", "a">>, <<"/", "a", "b">>, <<"/", "a", "/", "b">>,
          <<"/", "b">>, <<"/", "b", "a">>}

StartsWithA == <<"/", "a">>
BelowA == <<"/", "a", "/", ".+">>
EndsWithB == <<".+", "b">>
StartsWithB == <<"/", "b">>

\* options["include"], options["exclude"]: absent, or the words of the
\* option's text ("include": lambda s: s.split()).
Includes == <<None, Lst(<<StartsWithA>>), Lst(<<BelowA>>), Lst(<<EndsWithB>>),
              Lst(<<BelowA, StartsWithB>>)>>
Excludes == <<None, Lst(<<StartsWithB>>), Lst(<<EndsWithB>>), Lst(<<StartsWithA, StartsWithB>>)>>
\* options["http-methods-order"]
Orders == <<<<>>, <<"post", "get">>>>

\* Path items: two operations and a summary; common parameters and one
\* operation; no operation at all.
ItemTwoOperations ==
    <<E("summary", Str("s")), E("get", Map(<<>>)),
      E("post", Map(<<E("parameters", Lst(<<Str("id")>>))>>))>>
ItemCommonParameters ==
    <<E("parameters", Lst(<<Str("id"), Str("q")>>)),
      E("post", Map(<<E("parameters", Lst(<<Str("id")>>))>>))>>
ItemNoOperation == <<E("summary", Str("s"))>>
PathItems == <<ItemTwoOperations, ItemCommonParameters, ItemNoOperation>>

\* How many paths a spec has at most.
MaxPaths == 2

RendererInit ==
    /\ \E a \in 1..Len(Includes), b \in 1..Len(Excludes), c \in 1..Len(Orders) :
          options = [include |-> Includes[a], exclude |-> Excludes[b], order |-> Orders[c]]
    /\ \E n \in 0..MaxPaths :
          \E keys \in [1..n -> Paths], items \in [1..n -> 1..Len(PathItems)] :
             /\ \A i, j \in 1..n : i # j => keys[i] # keys[j]
             /\ spec_paths = [i \in 1..n |-> E(keys[i], Map(PathItems[items[i]]))]
    /\ iterable = <<>>
    /\ path_keys = <<>>
    /\ markup = <<>>
    /\ step = "idle"
    /\ SchemaIdle
    /\ ExampleIdle
    /\ IteratorIdle

\* self.filter_paths(iterable), on the keys of the spec's paths or on an
\* iterable that has every one of them twice.
CallFilterPaths ==
    /\ step = "idle"
    /\ \E paths \in {KeySeq(spec_paths), KeySeq(spec_paths) \o KeySeq(spec_paths)} :
          /\ iterable' = paths
          /\ path_keys' = FilterPaths(options, paths)
    /\ step' = "filtered"
    /\ UNCHANGED <<options, spec_paths, markup, schemaVars, exampleVars, iteratorVars>>

\* list(self.render_restructuredtext_markup(spec)), spec an OpenAPI 3 spec
RenderRestructuredtextMarkup ==
    /\ step # "rendered"
    /\ LET paths == FilterPaths(options, KeySeq(spec_paths))
           r == RenderPaths(options, spec_paths, paths, 1, <<>>)
       IN /\ iterable' = KeySeq(spec_paths)
          /\ path_keys' = paths
          /\ spec_paths' = r.paths
          /\ markup' = r.lines
    /\ step' = "rendered"
    /\ UNCHANGED <<options, schemaVars, exampleVars, iteratorVars>>

RendererNext ==
    \/ CallFilterPaths
    \/ RenderRestructuredtextMarkup

RendererSpec == RendererInit /\ [][RendererNext]_vars

\* ------------------------------------------------- example_from_schema
\* The schema is a mapping given by value (the function reads it only).
\* Example values: a string is the sequence of its characters, a float is
\* kept as the number of its halves (every float the function makes is an
\* integer or an integer and a half).
Text(c) == [k |-> "text", c |-> c]
Flt(halves) == [k |-> "float", halves |-> halves]
Bool(b) == [k |-> "bool", b |-> b]

Returns(v) == [err |-> "", v |-> v]
Raises(e) == [err |-> e, v |-> None]

\* _DEFAULT_EXAMPLES
DefaultTypes == <<"string", "integer", "number", "boolean", "array">>
DefaultExample(type) ==
    CASE type = "string" -> Text(<<"s", "t", "r", "i", "n", "g">>)
      [] type = "integer" -> Num(1)
      [] type = "number" -> Flt(2)
      [] type = "boolean" -> Bool(TRUE)
      [] type = "array" -> Lst(<<>>)

\* _DEFAULT_STRING_EXAMPLES.get(format, _DEFAULT_EXAMPLES["string"])
DefaultStringExample(format) ==
    CASE format = Str("date") -> <<"2", "0", "2", "0", "-", "0", "1", "-", "0", "1">>
      [] format = Str("date-time") -> <<"2", "0", "2", "0", "-", "0", "1", "-", "0", "1", "T", "0", "1", ":", "0", "1", ":", "0", "1", "Z">>
      [] format = Str("password") -> <<"*", "*", "*", "*", "*", "*", "*", "*">>
      [] format = Str("byte") -> <<"Q", "G", "1", "p", "Y", "2", "h", "h", "Z", "W", "x", "n", "c", "m", "F", "o", "Y", "W", "1", "l", "d", "m", "F", "u", "c", "w", "=", "=">>
      [] format = Str("ipv4") -> <<"1", "2", "7", ".", "0", ".", "0", ".", "1">>
      [] format = Str("ipv6") -> <<":", ":", "1">>
      [] OTHER -> <<"s", "t", "r", "i", "n", "g">>

\* The type names in the order sorted() puts them in.
SortedTypeNames == <<"array", "boolean", "integer", "null", "number", "object", "string">>
Rank(name) == CHOOSE i \in 1..Len(SortedTypeNames) : SortedTypeNames[i] = name

\* (a slip: the floor instead)
FloorToInt(halves) == halves \div 2
\* int(x) of a float: towards zero
TruncToInt(halves) == IF halves >= 0 THEN halves \div 2 ELSE -((-halves) \div 2)

Minimum(a, b) == IF a <= b THEN a ELSE b
Maximum(a, b) == IF a >= b THEN a ELSE b

\* dict.update(other) for what example_from_schema may have returned: a
\* mapping is merged, a string or a list is read as a sequence of
\* (key, value) pairs, anything else is not iterable.
RECURSIVE UpdateFromPairs(_, _, _)
UpdateFromPairs(d, pairs, i) ==
    IF i > Len(pairs) THEN Returns(Map(d))
    ELSE LET pair == pairs[i]
         IN CASE pair.k = "text" /\ Len(pair.c) = 2 ->
                    UpdateFromPairs(Put(d, pair.c[1], Text(<<pair.c[2]>>)), pairs, i + 1)
              [] pair.k \in {"text", "list", "map"} -> Raises("ValueError")
              [] OTHER -> Raises("TypeError")

DictUpdate(d, other) ==
    CASE other.k = "map" -> Returns(Map(Update(d, other.m)))
      [] other.k = "text" ->
            UpdateFromPairs(d, [i \in 1..Len(other.c) |-> Text(<<other.c[i]>>)], 1)
      [] other.k = "list" -> UpdateFromPairs(d, other.l, 1)
      [] OTHER -> Raises("TypeError")

\* (a slip: the string's own length is used whatever maxLength is)
GenLengthOfStringUncapped(len, min_length, max_length) ==
    IF min_length <= len THEN len ELSE min_length
\* gen_length of the string branch
GenLengthOfString(len, min_length, max_length) ==
    IF min_length <= len THEN Minimum(len, max_length) ELSE min_length

\* gen_length of the array branch
GenLengthOfArray(min_length, max_length) ==
    IF min_length <= 2 THEN Minimum(2, max_length) ELSE min_length

\* elif schema["type"] == "string"
StringExample(s) ==
    LET example_string == DefaultStringExample(IF Has(s, "format") THEN Get(s, "format") ELSE None)
        len == Len(example_string)
        min_length == IF Has(s, "minLength") THEN Get(s, "minLength").n ELSE 0
        max_length == IF Has(s, "maxLength") THEN Get(s, "maxLength").n
                      ELSE Maximum(min_length, len)
        gen_length == GenLengthOfString(len, min_length, max_length)
    IN IF ~(0 <= min_length /\ min_length <= max_length) THEN Raises("AssertionError")
       ELSE IF min_length <= len /\ len <= max_length THEN Returns(Text(example_string))
       ELSE Returns(Text([i \in 1..gen_length |-> example_string[((i - 1) % len) + 1]]))

\* Numbers beyond the 53 bits a float keeps.  Python's integers are exact,
\* its floats are IEEE doubles: between 2^52 and 2^53 only the integers are
\* floats, between 2^53 and 2^54 only the even ones.  A bound of a schema
\* is a small integer Num(n) or the big integer 2^53 + n, BigNum(2, n); a
\* number is kept exactly as Exact(b, h), b * 2^52 + h / 2 with h small.
BigNum(b, n) == [k |-> "bigint", b |-> b, n |-> n]
BigFlt(b, halves) == [k |-> "bigfloat", b |-> b, halves |-> halves]
Exact(b, h) == [b |-> b, h |-> h]
ExactOf(v) == IF v.k = "bigint" THEN Exact(v.b, 2 * v.n) ELSE Exact(0, 2 * v.n)
Plus(x, y) == Exact(x.b + y.b, x.h + y.h)
Minus(x, y) == Exact(x.b - y.b, x.h - y.h)
LessEq(x, y) == x.b < y.b \/ (x.b = y.b /\ x.h <= y.h)

\* The multiple of `grid` halves nearest to h; of two equally near, the
\* one whose mantissa is even (round-half-to-even).
RoundToGrid(h, grid) ==
    LET lower == grid * (h \div grid)
        rest == h - lower
    IN IF 2 * rest < grid THEN lower
       ELSE IF 2 * rest > grid THEN lower + grid
       ELSE IF lower % (2 * grid) = 0 THEN lower ELSE lower + grid

Negated(x) == Exact(-x.b, -x.h)

\* The float nearest to the number x >= 0.
RoundNotNegative(x) ==
    CASE x.b = 0 -> x
      [] x.b = 1 -> IF x.h >= 0 THEN Exact(1, RoundToGrid(x.h, 2)) ELSE x
      [] x.b = 2 -> IF x.h >= 0 THEN Exact(2, RoundToGrid(x.h, 4))
                    ELSE Exact(2, RoundToGrid(x.h, 2))

\* The float nearest to the number x.
RoundToFloat(x) ==
    IF x.b < 0 THEN Negated(RoundNotNegative(Negated(x))) ELSE RoundNotNegative(x)

\* int(x) and float(x) as example values
IntValue(x) ==
    IF x.b = 0 THEN Num(TruncToInt(x.h))
    ELSE IF x.b > 0 THEN BigNum(x.b, x.h \div 2) ELSE BigNum(x.b, -((-x.h) \div 2))
FloatValue(x) ==
    LET r == RoundToFloat(x)
    IN IF r.b = 0 THEN Flt(r.h) ELSE BigFlt(r.b, r.h)

\* elif schema["type"] in ("integer", "number")
NumericExample(s) ==
    LET example == Exact(0, 2 * 1)
        minimum == ExactOf(Get(s, "minimum"))
        maximum == ExactOf(Get(s, "maximum"))
        difference == Minus(maximum, minimum)
        half == RoundToFloat(Exact(difference.b \div 2, difference.h \div 2))
        value == IF Has(s, "minimum") /\ Has(s, "maximum")
                 THEN RoundToFloat(Plus(RoundToFloat(minimum), half))
                 ELSE IF Has(s, "minimum") /\ LessEq(example, minimum)
                 THEN Plus(minimum, Exact(0, 2))
                 ELSE IF Has(s, "maximum") /\ LessEq(maximum, example)
                 THEN Minus(maximum, Exact(0, 2))
                 ELSE example
    IN Returns(IF Get(s, "type") = Str("number") THEN FloatValue(value) ELSE IntValue(value))

\* _DEFAULT_EXAMPLES[sorted(items["oneOf"])[0]]
FirstSortedDefault(members) ==
    CASE members = <<>> -> Raises("IndexError")
      [] members # <<>> /\ \A i \in 1..Len(members) : members[i].k = "str" ->
            LET first == CHOOSE i \in 1..Len(members) :
                            \A n \in 1..Len(members) : Rank(members[i].s) <= Rank(members[n].s)
                name == members[first].s
            IN IF \E i \in 1..Len(DefaultTypes) : DefaultTypes[i] = name
               THEN Returns(<<DefaultExample(name)>>)
               ELSE Raises("KeyError")
      [] OTHER -> Raises("TypeError")

RECURSIVE ExampleFromSchema(_)
RECURSIVE AllOfExample(_, _, _)
RECURSIVE ObjectExample(_, _, _)
RECURSIVE ArrayExample(_)

\* for sub_schema in schema["allOf"]: example.update(example_from_schema(sub_schema))
AllOfExample(members, i, example) ==
    IF i > Len(members) THEN Returns(Map(example))
    ELSE LET r == ExampleFromSchema(members[i].m)
         IN IF r.err # "" THEN r
            ELSE LET u == DictUpdate(example, r.v)
                 IN IF u.err # "" THEN u ELSE AllOfExample(members, i + 1, u.v.m)

\* for prop, prop_schema in ...items(): example[prop] = example_from_schema(prop_schema)
ObjectExample(properties, i, example) ==
    IF i > Len(properties) THEN Returns(Map(example))
    ELSE LET r == ExampleFromSchema(properties[i].val.m)
         IN IF r.err # "" THEN r
            ELSE ObjectExample(properties, i + 1, Put(example, properties[i].key, r.v))

\* elif "items" in schema or schema.get("type") == "array"
ArrayExample(s) ==
    IF ~Has(s, "items") THEN Raises("KeyError")
    ELSE LET items == Get(s, "items")
             min_length == IF Has(s, "minItems") THEN Get(s, "minItems").n ELSE 0
             max_length == IF Has(s, "maxItems") THEN Get(s, "maxItems").n
                           ELSE Maximum(min_length, 2)
             gen_length == GenLengthOfArray(min_length, max_length)
             example_items ==
                 IF items = Map(<<>>)
                 THEN Returns([i \in 1..Len(DefaultTypes) |-> DefaultExample(DefaultTypes[i])])
                 ELSE IF Has(items.m, "oneOf")
                 THEN FirstSortedDefault(Get(items.m, "oneOf").l)
                 ELSE LET r == ExampleFromSchema(items.m)
                      IN IF r.err # "" THEN r ELSE Returns(<<r.v>>)
         IN IF ~(min_length <= max_length) THEN Raises("AssertionError")
            ELSE IF example_items.err # "" THEN example_items
            ELSE Returns(Lst([i \in 1..gen_length |->
                                 example_items.v[((i - 1) % Len(example_items.v)) + 1]]))

ExampleFromSchema(s) ==
    IF Has(s, "example") THEN Returns(Get(s, "example"))
    ELSE IF Has(s, "oneOf")
    THEN IF Get(s, "oneOf").l = <<>> THEN Raises("IndexError")
         ELSE ExampleFromSchema(Get(s, "oneOf").l[1].m)
    ELSE IF Has(s, "anyOf")
    THEN IF Get(s, "anyOf").l = <<>> THEN Raises("IndexError")
         ELSE ExampleFromSchema(Get(s, "anyOf").l[1].m)
    ELSE IF Has(s, "allOf") THEN AllOfExample(Get(s, "allOf").l, 1, <<>>)
    ELSE IF Has(s, "enum")
    THEN IF Get(s, "enum").l = <<>> THEN Raises("IndexError")
         ELSE Returns(Get(s, "enum").l[1])
    ELSE IF ~Has(s, "type") /\ ~Has(s, "properties") /\ ~Has(s, "items")
    THEN Returns(DefaultExample("integer"))
    ELSE IF Has(s, "properties") \/ (Has(s, "type") /\ Get(s, "type") = Str("object"))
    THEN ObjectExample(IF Has(s, "properties") THEN Get(s, "properties").m ELSE <<>>, 1, <<>>)
    ELSE IF Has(s, "items") \/ (Has(s, "type") /\ Get(s, "type") = Str("array"))
    THEN ArrayExample(s)
    ELSE IF Get(s, "type") = Str("string") THEN StringExample(s)
    ELSE IF Get(s, "type") \in {Str("integer"), Str("number")} THEN NumericExample(s)
    ELSE IF \E i \in 1..Len(DefaultTypes) : Get(s, "type") = Str(DefaultTypes[i])
    THEN Returns(DefaultExample(Get(s, "type").s))
    ELSE Raises("KeyError")

\* The schemas examples are asked for.  The largest minLength / maxLength
\* and the largest minItems / maxItems:
MaxLength == 30
MaxItems == 4

\* schema["format"]: none, the six formats with an example of their own,
\* and one without
Formats == <<None, Str("date"), Str("date-time"), Str("password"), Str("byte"),
             Str("ipv4"), Str("ipv6"), Str("uuid")>>

\* The two optional bounds of a schema, as its last keys.
Bounds(min_key, has_min, min, max_key, has_max, max) ==
    (IF has_min THEN <<E(min_key, Num(min))>> ELSE <<>>)
    \o (IF has_max THEN <<E(max_key, Num(max))>> ELSE <<>>)

StringSchema(format, has_min, min, has_max, max) ==
    Map(<<E("type", Str("string"))>>
        \o (IF format # None THEN <<E("format", format)>> ELSE <<>>)
        \o Bounds("minLength", has_min, min, "maxLength", has_max, max))

\* schema["items"] of the array schemas: any type; a string; an integer
\* with an example; strings of a given length; an array; an object; a
\* oneOf of type names; a oneOf of schemas.
ItemSchemas ==
    <<Map(<<>>),
      Map(<<E("type", Str("string"))>>),
      Map(<<E("type", Str("integer")), E("example", Num(7))>>),
      Map(<<E("type", Str("string")), E("minLength", Num(2)), E("maxLength", Num(2))>>),
      Map(<<E("type", Str("array")), E("items", Map(<<E("type", Str("boolean"))>>))>>),
      Map(<<E("properties", Map(<<E("p", Map(<<E("type", Str("number"))>>))>>))>>),
      Map(<<E("oneOf", Lst(<<Str("string"), Str("integer")>>))>>),
      Map(<<E("oneOf", Lst(<<Map(<<E("type", Str("string"))>>),
                             Map(<<E("type", Str("integer"))>>)>>))>>)>>

\* An array schema: with or without `type`, with or without `items`.
ArraySchema(typed, item, has_min, min, has_max, max) ==
    Map((IF typed THEN <<E("type", Str("array"))>> ELSE <<>>)
        \o (IF item > 0 THEN <<E("items", ItemSchemas[item])>> ELSE <<>>)
        \o Bounds("minItems", has_min, min, "maxItems", has_max, max))

\* The bounds of the numeric schemas: the integers -MaxBound..MaxBound and
\* the integers 2^53 .. 2^53 + MaxBound.
MaxBound == 3

BoundValue(big, n) == IF big THEN BigNum(2, n) ELSE Num(n)

NumericSchema(type, has_min, min, has_max, max) ==
    Map(<<E("type", Str(type))>>
        \o (IF has_min THEN <<E("minimum", min)>> ELSE <<>>)
        \o (IF has_max THEN <<E("maximum", max)>> ELSE <<>>))

\* Schemas of the other branches.
OtherSchemas ==
    <<Map(<<E("type", Str("string")), E("example", Text(<<"J", "o">>))>>),
      Map(<<E("oneOf", Lst(<<Map(<<E("type", Str("boolean"))>>), Map(<<>>)>>))>>),
      Map(<<E("anyOf", Lst(<<Map(<<E("type", Str("string")), E("format", Str("ipv6"))>>)>>))>>),
      Map(<<E("oneOf", Lst(<<>>))>>),
      Map(<<E("allOf", Lst(<<Map(<<E("properties", Map(<<E("a", Map(<<>>))>>))>>),
                             Map(<<E("type", Str("object")),
                                   E("properties", Map(<<E("b", Map(<<E("type", Str("string"))>>))>>))>>)>>))>>),
      Map(<<E("allOf", Lst(<<Map(<<E("type", Str("string"))>>)>>))>>),
      Map(<<E("allOf", Lst(<<Map(<<E("type", Str("integer"))>>)>>))>>),
      Map(<<E("allOf", Lst(<<Map(<<E("type", Str("array")), E("items", Map(<<E("type", Str("string")), E("maxLength", Num(2))>>))>>)>>))>>),
      Map(<<E("type", Str("string")), E("enum", Lst(<<Str("b"), Str("a")>>))>>),
      Map(<<E("enum", Lst(<<>>))>>),
      Map(<<>>),
      Map(<<E("type", Str("object"))>>),
      Map(<<E("type", Str("boolean"))>>),
      Map(<<E("type", Str("null"))>>),
      Map(<<E("type", Str("integer"))>>),
      Map(<<E("type", Str("number")), E("minimum", Num(1))>>),
      Map(<<E("type", Str("integer")), E("minimum", Num(0)), E("maximum", Num(3))>>),
      Map(<<E("type", Str("number")), E("maximum", Num(0))>>)>>

ExampleInit ==
    /\ \/ \E format \in 1..Len(Formats), has_min, has_max \in BOOLEAN, min, max \in 0..MaxLength :
             /\ has_min \/ min = 0
             /\ has_max \/ max = 0
             /\ ex_schema = StringSchema(Formats[format], has_min, min, has_max, max)
       \/ \E typed \in BOOLEAN, item \in 0..Len(ItemSchemas),
             has_min, has_max \in BOOLEAN, min, max \in 0..MaxItems :
             /\ typed \/ item > 0
             /\ has_min \/ min = 0
             /\ has_max \/ max = 0
             /\ ex_schema = ArraySchema(typed, item, has_min, min, has_max, max)
       \/ \E type \in {"integer", "number"}, has_min, has_max, big_min, big_max \in BOOLEAN,
             min, max \in (-MaxBound)..MaxBound :
             /\ has_min \/ (min = 0 /\ ~big_min)
             /\ has_max \/ (max = 0 /\ ~big_max)
             /\ big_min => min >= 0
             /\ big_max => max >= 0
             /\ ex_schema = NumericSchema(type, has_min, BoundValue(big_min, min),
                                          has_max, BoundValue(big_max, max))
       \/ \E i \in 1..Len(OtherSchemas) : ex_schema = OtherSchemas[i]
    /\ ex_result = None
    /\ SchemaIdle
    /\ RendererIdle
    /\ IteratorIdle

\* example = example_from_schema(schema)
CallExampleFromSchema ==
    /\ ex_schema # None
    /\ ex_result = None
    /\ ex_result' = ExampleFromSchema(ex_schema.m)
    /\ UNCHANGED <<ex_schema, schemaVars, rendererVars, iteratorVars>>

ExampleNext == CallExampleFromSchema

ExampleSpec == ExampleInit /\ [][ExampleNext]_vars

\* -------------------------------------------------------- _iterexamples
\* The media types are mappings given by value: the iterator is the only
\* one to hold them while it runs, and what it writes to an example is
\* kept in `media_types`.  A URL is its scheme and the rest of it.
Url(scheme, rest) == [k |-> "url", scheme |-> scheme, rest |-> rest]

\* bool(value), for the values a media type holds
Truthy(value) ==
    CASE value.k = "none" -> FALSE
      [] value.k = "map" -> value.m # <<>>
      [] value.k = "list" -> value.l # <<>>
      [] value.k = "text" -> value.c # <<>>
      [] value.k = "int" -> value.n # 0
      [] value.k = "bool" -> value.b
      [] OTHER -> TRUE

\* d.get(key, default)
GetOr(d, key, default) == IF Has(d, key) THEN Get(d, key) ELSE default

\* url.startswith(("http://", "https://"))
SupportedProtocolHttpOnly(url) == url.scheme = "http"
SupportedProtocol(url) == url.scheme \in {"http", "https"}

\* response = requests.get(url); response.raise_for_status(); response.text
\* The request of a URL that is not reachable raises (no connection, or a
\* response with an error status).
Retrieve(url, urls) ==
    IF url \in urls THEN Returns(Text(<<"f", "r", "o", "m", url.rest>>))
    ELSE Raises("RequestException")

Logged(level, url) == [level |-> level, url |-> url]

\* The loop over media_type["examples"].values(), from the i-th example on:
\* the examples as the loop leaves them, the position of the example the
\* loop broke at (0 if it ran to its end), and the log.
RECURSIVE ExamplesLoop(_, _, _, _)
ExamplesLoop(values, i, urls, lg) ==
    IF i > Len(values) THEN [values |-> values, at |-> 0, log |-> lg]
    ELSE LET this == values[i].val.m
         IN IF Has(this, "externalValue")
            THEN LET url == Get(this, "externalValue")
                     response == Retrieve(url, urls)
                 IN IF ~SupportedProtocol(url)
                    THEN ExamplesLoop(values, i + 1, urls, Append(lg, Logged("warning", url)))
                    ELSE IF response.err # ""
                    THEN ExamplesLoop(values, i + 1, urls, Append(lg, Logged("error", url)))
                    ELSE [values |-> [values EXCEPT ![i].val =
                                         Map(Del(Put(this, "value", response.v), "externalValue"))],
                          at |-> i, log |-> lg]
            ELSE [values |-> values, at |-> i, log |-> lg]

\* One turn of the loop over the content types: the media type as the turn
\* leaves it, what the turn yields (None if it yields nothing), the log and
\* the exception that ends the iterator ("" if none).
Turn(media_type, from_schemas, urls, lg) ==
    LET nothing == [media_type |-> media_type, yields |-> None, log |-> lg, err |-> ""]
        its_schema == GetOr(media_type, "schema", Map(<<>>))
    IN IF Truthy(GetOr(media_type, "examples", Map(<<>>)))
       THEN LET loop == ExamplesLoop(Get(media_type, "examples").m, 1, urls, lg)
            IN [media_type |-> Put(media_type, "examples", Map(loop.values)),
                yields |-> IF loop.at = 0 THEN None ELSE loop.values[loop.at].val,
                log |-> loop.log, err |-> ""]
       ELSE IF Truthy(GetOr(media_type, "example", None))
       THEN [nothing EXCEPT !.yields = Map(<<E("value", Get(media_type, "example"))>>)]
       ELSE IF Truthy(GetOr(its_schema.m, "example", None))
       THEN [nothing EXCEPT !.yields = Map(<<E("value", Get(its_schema.m, "example"))>>)]
       ELSE IF Has(media_type, "schema") /\ from_schemas
       THEN LET made == ExampleFromSchema(its_schema.m)
            IN IF made.err # "" THEN [nothing EXCEPT !.err = made.err]
               ELSE [nothing EXCEPT !.yields = Map(<<E("value", made.v)>>)]
       ELSE nothing

\* The URLs of the examples, and the examples of a media type.
UrlA == Url("http", "a")
UrlB == Url("https", "b")
UrlC == Url("file", "c")
Urls == {UrlA, UrlB}

Inline(c) == Map(<<E("value", Text(<<c>>))>>)
External(url) == Map(<<E("summary", Text(<<"s">>)), E("externalValue", url)>>)

MediaTypes ==
    <<<<E("examples", Map(<<E("first", Inline("v"))>>))>>,
      <<E("examples", Map(<<E("first", External(UrlA)), E("second", Inline("w"))>>))>>,
      <<E("examples", Map(<<E("first", External(UrlC)), E("second", External(UrlB))>>)),
        E("example", Text(<<"e">>))>>,
      <<E("examples", Map(<<E("first", External(UrlA))>>)),
        E("schema", Map(<<E("type", Str("string"))>>))>>,
      <<E("examples", Map(<<>>)), E("example", Text(<<"e">>))>>,
      <<E("example", Text(<<>>)),
        E("schema", Map(<<E("type", Str("string")), E("example", Text(<<"x">>))>>))>>,
      <<E("schema", Map(<<E("type", Str("integer")), E("minimum", Num(2))>>))>>,
      <<E("schema", Map(<<E("type", Str("array"))>>))>>,
      <<>>>>

ContentTypes == <<"application/json", "text/plain">>
Preferences == <<<<>>, <<"text/plain">>, <<"text/plain", "application/json">>>>

IterExamplesInit ==
    /\ \E n \in 0..Len(ContentTypes) :
          \E chosen \in [1..n -> 1..Len(MediaTypes)] :
             media_types = [i \in 1..n |-> E(ContentTypes[i], Map(MediaTypes[chosen[i]]))]
    /\ given_media_types = media_types
    /\ \E p \in 1..Len(Preferences) : example_preference = Preferences[p]
    /\ examples_from_schemas \in BOOLEAN
    /\ reachable \in SUBSET Urls
    /\ remaining = <<>>
    /\ examples = <<>>
    /\ log = <<>>
    /\ iterating = "idle"
    /\ raised = ""
    /\ SchemaIdle
    /\ RendererIdle
    /\ ExampleIdle

\* _iterexamples(media_types, example_preference, examples_from_schemas),
\* up to the first turn of its loop
CallIterExamples ==
    /\ iterating = "idle"
    /\ remaining' = IterInOrder(KeySeq(media_types), example_preference, 1)
    /\ iterating' = IF remaining' = <<>> THEN "done" ELSE "running"
    /\ UNCHANGED <<media_types, given_media_types, example_preference, examples_from_schemas,
                   reachable, examples, log, raised, schemaVars, rendererVars, exampleVars>>

\* One turn of the loop: the next content type, and the example it yields
\* if it has one.
NextContentType ==
    /\ iterating = "running"
    /\ LET content_type == Head(remaining)
           turn == Turn(Get(media_types, content_type).m, examples_from_schemas, reachable, log)
       IN /\ media_types' = Put(media_types, content_type, Map(turn.media_type))
          /\ log' = turn.log
          /\ raised' = turn.err
          /\ examples' = IF turn.err = "" /\ turn.yields # None
                         THEN Append(examples, E(content_type, turn.yields))
                         ELSE examples
          /\ remaining' = Tail(remaining)
          /\ iterating' = IF turn.err # "" \/ remaining' = <<>> THEN "done" ELSE "running"
    /\ UNCHANGED <<given_media_types, example_preference, examples_from_schemas, reachable,
                   schemaVars, rendererVars, exampleVars>>

IterExamplesNext == CallIterExamples \/ NextContentType

IterExamplesSpec == IterExamplesInit /\ [][IterExamplesNext]_vars



\* ---------------------------------------------------------------- properties
Returned(fn) == pc = "idle" /\ last = fn /\ err = ""
Reducible == {"oneOf", "anyOf", "allOf", "not"}

\* C1: the Document is never mutated in place: whatever calls have been
\* made on a schema taken from it, the Document's content (every nested
\* mapping included) equals what was loaded (until the caller itself writes
\* to a node it was returned, which is C14's case).
C1_DocumentNeverMutated == pc # "rewritten" => Content(heap, top_level) = document

\* C2: the mapping resolve_combining_schema returns has none of the keys
\* oneOf, anyOf, allOf, not.
C2_CombinerOutputReduced ==
    Returned("resolve_combining_schema") => Keys(heap[result.a]) \cap Reducible = {}

\* C3: resolve_combining_schema is idempotent: called on a mapping it
\* returned itself, it returns an equal mapping.
C3_CombinerIdempotent ==
    (Returned("resolve_combining_schema") /\ source = "resolve_combining_schema")
        => Content(heap, result) = Content(heap, schema)

Unresolved == {"$ref", "oneOf", "anyOf", "allOf", "not"}

\* C4: no descriptor traverse_schema yields has a schema with one of the
\* keys $ref, oneOf, anyOf, allOf, not -- neither as it is yielded nor later
\* in the traversal.
C4_YieldedSchemasResolved ==
    \A i \in 1..Len(yielded) :
        /\ yielded[i].keys \cap Unresolved = {}
        /\ Keys(heap[yielded[i].schema.a]) \cap Unresolved = {}

\* C4's case: a traversal that went through a `$ref` and through a
\* composition keyword has ended, having yielded descriptors.
C4_Witness ==
    /\ Returned("traverse_schema")
    /\ \E i \in 1..Len(yielded) : yielded[i].origin = "combining"
    /\ \E i \in 1..Len(yielded) : yielded[i].origin = "property"
    /\ \E a \in 1..Len(heap) : Has(heap[a], "$ref")

\* The keys $ref / oneOf / anyOf / allOf left in a tree, at any depth
\* reachable through `properties` and `items`.
RECURSIVE Outstanding(_, _)
Outstanding(h, v) ==
    LET d == h[v.a]
    IN \/ Keys(d) \cap {"$ref", "oneOf", "anyOf", "allOf"} # {}
       \/ /\ Has(d, "properties")
          /\ \E i \in 1..Len(h[Get(d, "properties").a]) :
                Outstanding(h, h[Get(d, "properties").a][i].val)
       \/ /\ Has(d, "items")
          /\ Outstanding(h, Get(d, "items"))

\* C5: the tree rebuild_references returns has no $ref, oneOf, anyOf or
\* allOf key at any depth reachable through properties and items.
C5_RebuiltTreeSelfContained ==
    Returned("rebuild_references") => ~Outstanding(heap, result)

\* C6: traverse_schema produces a finite sequence: consuming it reaches its
\* end, it does not recurse without end (until the interpreter gives up
\* with RecursionError).
C6_TraversalFinite == ~(last = "traverse_schema" /\ err = "RecursionError")

\* What the options select: a path that matches an include pattern (any
\* path that is not empty when there is no include option) and no exclude
\* pattern.  The operations of a path item; the directives of the markup.
Selected(path) ==
    /\ IF options.include = None THEN path # <<>>
       ELSE \E i \in 1..Len(options.include.l) : Match(options.include.l[i], path)
    /\ options.exclude # None =>
          \A i \in 1..Len(options.exclude.l) : ~Match(options.exclude.l[i], path)

Operations(item) == Keys(item) \ NotOperations

Directives == {markup[i] : i \in 1..Len(markup)}

FirstIndex(s, x) == CHOOSE i \in 1..Len(s) : s[i] = x /\ \A n \in 1..(i - 1) : s[n] # x

\* C7.  Path filtering.  After a rendering there is an operation directive
\* for an operation of a path of the spec if and only if the path matches
\* (as re.match does) at least one include pattern -- or, without an
\* include option, is not empty -- and matches no exclude pattern; the
\* markup has no other directive.  What filter_paths returns is the
\* selected paths of its iterable, each once, in the order in which they
\* first occur in the iterable.
C7_PathFiltering ==
    /\ step = "rendered" =>
          /\ \A i \in 1..Len(spec_paths) :
                \A method \in Operations(spec_paths[i].val.m) :
                   [method |-> method, endpoint |-> spec_paths[i].key] \in Directives
                      <=> Selected(spec_paths[i].key)
          /\ \A line \in Directives :
                \E i \in 1..Len(spec_paths) :
                   /\ spec_paths[i].key = line.endpoint
                   /\ line.method \in Operations(spec_paths[i].val.m)
    /\ step # "idle" =>
          /\ {path_keys[i] : i \in 1..Len(path_keys)}
                = {iterable[i] : i \in {n \in 1..Len(iterable) : Selected(iterable[n])}}
          /\ \A i, j \in 1..Len(path_keys) :
                i < j => FirstIndex(iterable, path_keys[i]) < FirstIndex(iterable, path_keys[j])

\* A rendering under both options of a spec of which one path is rendered
\* and another, which has an operation and matches an include pattern, is
\* left out because it matches an exclude pattern.
C7_Witness ==
    /\ step = "rendered"
    /\ options.include # None
    /\ options.exclude # None
    /\ markup # <<>>
    /\ \E i \in 1..Len(spec_paths) :
          /\ Operations(spec_paths[i].val.m) # {}
          /\ \E n \in 1..Len(options.include.l) : Match(options.include.l[n], spec_paths[i].key)
          /\ \A line \in Directives : line.endpoint # spec_paths[i].key

\* C8: a descriptor yielded for a property whose schema is a primitive, an
\* enum or an object has required = True exactly when the property is
\* listed in its object's `required`; and an object is yielded only under
\* a non-empty name (the root of a traversal started with "" is not).
C8_RequiredFromOwnObject ==
    \A i \in 1..Len(yielded) :
        /\ (yielded[i].origin = "property" /\ yielded[i].via \in {"primitive", "enum", "object"})
              => (yielded[i].required <=> yielded[i].listed)
        /\ yielded[i].via = "object" => yielded[i].name # ""

\* C8's case: a traversal started with an empty name on an object has
\* ended; it yielded the listed property p as required and the unlisted
\* property q, an object reached through a `$ref`, as not required -- and
\* not the root.
C8_Witness ==
    /\ Returned("traverse_schema")
    /\ \E i, j \in 1..Len(yielded) :
          /\ yielded[i].origin = "property" /\ yielded[i].required /\ yielded[i].name = "p"
          /\ yielded[j].origin = "property" /\ ~yielded[j].required /\ yielded[j].name = "q"
          /\ yielded[j].via = "object"
    /\ Has(heap[Get(heap[Get(heap[schema.a], "properties").a], "q").a], "$ref")
    /\ \A i \in 1..Len(yielded) : yielded[i].name # ""

\* The schemas C9 is about, and their bounds.
IsStringSchema(s) ==
    /\ Has(s, "type") /\ Get(s, "type") = Str("string")
    /\ Keys(s) \cap {"example", "enum", "oneOf", "anyOf", "allOf", "properties", "items"} = {}

LowerBound(s, key) == IF Has(s, key) THEN Get(s, key).n ELSE 0
WithinUpperBound(s, key, n) == Has(s, key) => n <= Get(s, key).n

\* C9.  A string schema (type string; no example, enum or composition key;
\* any format or none) with minLength m and maxLength M, 0 <= m <= M, or
\* with one of the two only (m is 0 without minLength, there is no upper
\* bound without maxLength): example_from_schema returns a string of at
\* least m and at most M characters.
C9_StringExampleLength ==
    (/\ ex_result # None
     /\ IsStringSchema(ex_schema.m)
     /\ WithinUpperBound(ex_schema.m, "maxLength", LowerBound(ex_schema.m, "minLength")))
    => /\ ex_result.err = ""
       /\ ex_result.v.k = "text"
       /\ Len(ex_result.v.c) >= LowerBound(ex_schema.m, "minLength")
       /\ WithinUpperBound(ex_schema.m, "maxLength", Len(ex_result.v.c))

\* C9's case: both bounds are given, the format's own example is longer
\* than maxLength, and the example returned has been cut to maxLength.
C9_Witness ==
    /\ ex_result # None
    /\ IsStringSchema(ex_schema.m)
    /\ Has(ex_schema.m, "format")
    /\ Has(ex_schema.m, "minLength") /\ Get(ex_schema.m, "minLength").n > 0
    /\ Has(ex_schema.m, "maxLength")
    /\ ex_result.err = ""
    /\ Len(ex_result.v.c) = Get(ex_schema.m, "maxLength").n
    /\ Len(ex_result.v.c) < Len(DefaultStringExample(Get(ex_schema.m, "format")))

\* The schemas C10 is about, and their bounds.
IsArraySchema(s) ==
    /\ Has(s, "items")
    /\ Keys(s) \cap {"example", "enum", "oneOf", "anyOf", "allOf", "properties"} = {}
    /\ Has(s, "type") => Get(s, "type") = Str("array")

MinItems(s) == IF Has(s, "minItems") THEN Get(s, "minItems").n ELSE 0
MaxItemsOf(s) == IF Has(s, "maxItems") THEN Get(s, "maxItems").n ELSE Maximum(MinItems(s), 2)

\* C10.  An array schema with `items` (no example, enum or composition key
\* of its own) and minItems m <= maxItems M, m being 0 and M being
\* max(m, 2) where the schema does not give them: example_from_schema
\* returns a list of at least m and at most M elements, and of at least
\* min(2, M) elements when m <= 2.
C10_ArrayExampleLength ==
    (/\ ex_result # None
     /\ IsArraySchema(ex_schema.m)
     /\ MinItems(ex_schema.m) <= MaxItemsOf(ex_schema.m))
    => /\ ex_result.err = ""
       /\ ex_result.v.k = "list"
       /\ Len(ex_result.v.l) >= MinItems(ex_schema.m)
       /\ Len(ex_result.v.l) <= MaxItemsOf(ex_schema.m)
       /\ MinItems(ex_schema.m) <= 2
             => Len(ex_result.v.l) >= Minimum(2, MaxItemsOf(ex_schema.m))

\* A numeric schema, and an example value as an exact number.
IsNumericSchema(s) ==
    /\ Has(s, "type") /\ Get(s, "type") \in {Str("integer"), Str("number")}
    /\ Keys(s) \cap {"example", "enum", "oneOf", "anyOf", "allOf", "properties", "items"} = {}

HasBothBounds(s) == Has(s, "minimum") /\ Has(s, "maximum")

ExactOfExample(v) ==
    CASE v.k = "int" -> Exact(0, 2 * v.n)
      [] v.k = "bigint" -> Exact(v.b, 2 * v.n)
      [] v.k = "float" -> Exact(0, v.halves)
      [] v.k = "bigfloat" -> Exact(v.b, v.halves)

TypedAsDeclared(s, v) ==
    IF Get(s, "type") = Str("integer") THEN v.k \in {"int", "bigint"}
    ELSE v.k \in {"float", "bigfloat"}

\* C11 as stated.  A schema of type integer or number with both minimum and
\* maximum: the example is (minimum + maximum) / 2 exactly, an integer for
\* type integer and a float for type number.
C11_ExactMidpoint ==
    (ex_result # None /\ IsNumericSchema(ex_schema.m) /\ HasBothBounds(ex_schema.m))
    => /\ ex_result.err = ""
       /\ TypedAsDeclared(ex_schema.m, ex_result.v)
       /\ Plus(ExactOfExample(ex_result.v), ExactOfExample(ex_result.v))
             = Plus(ExactOf(Get(ex_schema.m, "minimum")), ExactOf(Get(ex_schema.m, "maximum")))

\* C11 amended.  With both bounds integers of a magnitude below 2^52: for
\* type number the example is the float (minimum + maximum) / 2; for type
\* integer it is the integer (minimum + maximum) / 2 rounded towards zero,
\* which is the midpoint itself when the sum of the bounds is even.
SmallBounds(s) == Get(s, "minimum").k = "int" /\ Get(s, "maximum").k = "int"
SumOfBounds(s) == Get(s, "minimum").n + Get(s, "maximum").n

C11_MidpointTowardsZero ==
    (/\ ex_result # None
     /\ IsNumericSchema(ex_schema.m)
     /\ HasBothBounds(ex_schema.m)
     /\ SmallBounds(ex_schema.m))
    => /\ ex_result.err = ""
       /\ IF Get(ex_schema.m, "type") = Str("number")
          THEN ex_result.v = Flt(SumOfBounds(ex_schema.m))
          ELSE /\ ex_result.v.k = "int"
               /\ \E rest \in {0, 1} :
                     /\ (SumOfBounds(ex_schema.m) - rest) % 2 = 0
                     /\ 2 * ex_result.v.n = IF SumOfBounds(ex_schema.m) >= 0
                                            THEN SumOfBounds(ex_schema.m) - rest
                                            ELSE SumOfBounds(ex_schema.m) + rest

\* C11's case: an integer schema whose bounds have an odd, negative sum has
\* got its example.
C11_Witness ==
    /\ ex_result # None
    /\ IsNumericSchema(ex_schema.m)
    /\ HasBothBounds(ex_schema.m)
    /\ SmallBounds(ex_schema.m)
    /\ Get(ex_schema.m, "type") = Str("integer")
    /\ SumOfBounds(ex_schema.m) < 0
    /\ SumOfBounds(ex_schema.m) % 2 = 1
    /\ ex_result.err = ""

\* A schema that comes to the array step of example_from_schema.
ReachesArrayStep(s) ==
    /\ Keys(s) \cap {"example", "enum", "oneOf", "anyOf", "allOf", "properties"} = {}
    /\ ~(Has(s, "type") /\ Get(s, "type") = Str("object"))
    /\ Has(s, "items") \/ (Has(s, "type") /\ Get(s, "type") = Str("array"))

\* C12.  A schema that comes to the array step because it has `items` or
\* because its type is array -- also one of type array without `items` --
\* and whose minItems is not above its maxItems: example_from_schema does
\* not fail, it returns a list of a length within the bounds.
C12_ArrayStepReturnsList ==
    (/\ ex_result # None
     /\ ReachesArrayStep(ex_schema.m)
     /\ MinItems(ex_schema.m) <= MaxItemsOf(ex_schema.m))
    => /\ ex_result.err = ""
       /\ ex_result.v.k = "list"
       /\ Len(ex_result.v.l) >= MinItems(ex_schema.m)
       /\ Len(ex_result.v.l) <= MaxItemsOf(ex_schema.m)

\* A schema that comes to the string, array or numeric step with its lower
\* bound above its upper bound (an array schema that has the `items` the
\* array step reads first).
InvalidBounds(s) ==
    \/ /\ IsStringSchema(s)
       /\ Has(s, "minLength") /\ Has(s, "maxLength")
       /\ Get(s, "minLength").n > Get(s, "maxLength").n
    \/ /\ ReachesArrayStep(s)
       /\ Has(s, "items")
       /\ Has(s, "minItems") /\ Has(s, "maxItems")
       /\ Get(s, "minItems").n > Get(s, "maxItems").n
    \/ /\ IsNumericSchema(s)
       /\ HasBothBounds(s)
       /\ ~LessEq(ExactOf(Get(s, "minimum")), ExactOf(Get(s, "maximum")))

\* C13.  Invalid bounds are fatal: for a schema that comes to the string,
\* array or numeric step with minLength > maxLength, minItems > maxItems or
\* minimum > maximum, example_from_schema fails with an assertion error and
\* returns no value.
C13_InvalidBoundsAssert ==
    (ex_result # None /\ InvalidBounds(ex_schema.m))
    => /\ ex_result.err = "AssertionError"
       /\ ex_result.v = None

\* C19.  A schema of type integer with integer bounds: the example keeps to
\* the bounds -- minimum <= example <= maximum when both are given and
\* minimum <= maximum, example >= minimum when only minimum is given,
\* example <= maximum when only maximum is given.
C19_IntegerExampleWithinBounds ==
    (/\ ex_result # None
     /\ IsNumericSchema(ex_schema.m)
     /\ Get(ex_schema.m, "type") = Str("integer")
     /\ HasBothBounds(ex_schema.m)
           => LessEq(ExactOf(Get(ex_schema.m, "minimum")), ExactOf(Get(ex_schema.m, "maximum"))))
    => /\ ex_result.err = ""
       /\ ex_result.v.k \in {"int", "bigint"}
       /\ Has(ex_schema.m, "minimum")
             => LessEq(ExactOf(Get(ex_schema.m, "minimum")), ExactOfExample(ex_result.v))
       /\ Has(ex_schema.m, "maximum")
             => LessEq(ExactOfExample(ex_result.v), ExactOf(Get(ex_schema.m, "maximum")))

\* An example can be used as it is given, or after its external value has
\* been fetched.
CanBeUsed(candidate) ==
    \/ ~Has(candidate.m, "externalValue")
    \/ /\ Get(candidate.m, "externalValue").scheme \in {"http", "https"}
       /\ Get(candidate.m, "externalValue") \in reachable
ValueOf(candidate) ==
    IF Has(candidate.m, "externalValue")
    THEN Retrieve(Get(candidate.m, "externalValue"), reachable).v
    ELSE Get(candidate.m, "value")
GivenExamples(content_type) ==
    LET given == Get(given_media_types, content_type).m
    IN IF Has(given, "examples") THEN Get(given, "examples").m ELSE <<>>
Tried(content_type) ==
    /\ iterating # "idle"
    /\ \A i \in 1..Len(remaining) : remaining[i] # content_type
Position(keys, key) == CHOOSE i \in 1..Len(keys) : keys[i] = key
PreferredBefore(a, b) ==
    \/ Priority(example_preference, a) < Priority(example_preference, b)
    \/ /\ Priority(example_preference, a) = Priority(example_preference, b)
       /\ Position(KeySeq(given_media_types), a) < Position(KeySeq(given_media_types), b)
YieldedFor(content_type) == \E i \in 1..Len(examples) : examples[i].key = content_type

\* C16: a failed fetch of an external example, or an external value that is
\* not http(s), never ends the iterator with an error: the example is
\* skipped and the next example of the media type is tried, then the next
\* media type in preference order, so that the first usable example of each
\* media type tried is yielded with its value, and a media type with an
\* inline example after one whose examples were all skipped still yields.
C16_FetchFailureRecovered ==
    /\ raised # "RequestException"
    /\ \A i, j \in 1..Len(examples) : i < j => PreferredBefore(examples[i].key, examples[j].key)
    /\ \A content_type \in Keys(given_media_types) :
          Tried(content_type) /\ raised = "" =>
             LET candidates == GivenExamples(content_type)
                 given == Get(given_media_types, content_type).m
             IN IF candidates # <<>>
                THEN IF \E n \in 1..Len(candidates) : CanBeUsed(candidates[n].val)
                     THEN LET first == CHOOSE n \in 1..Len(candidates) :
                                          /\ CanBeUsed(candidates[n].val)
                                          /\ \A before \in 1..(n - 1) : ~CanBeUsed(candidates[before].val)
                          IN \E i \in 1..Len(examples) :
                                /\ examples[i].key = content_type
                                /\ Get(examples[i].val.m, "value") = ValueOf(candidates[first].val)
                                /\ ~Has(examples[i].val.m, "externalValue")
                     ELSE ~YieldedFor(content_type)
                ELSE Has(given, "example") /\ Truthy(Get(given, "example"))
                     => YieldedFor(content_type)

C16_Witness ==
    /\ iterating = "done"
    /\ raised = ""
    /\ \E i \in 1..Len(log) : log[i].level = "error"
    /\ \E skipped \in Keys(given_media_types) :
          /\ GivenExamples(skipped) # <<>>
          /\ ~YieldedFor(skipped)
          /\ \E i \in 1..Len(examples) : PreferredBefore(skipped, examples[i].key)

\* C14: the node resolve_reference returns is isolated from the Document:
\* whatever the caller writes to it -- a key of the node, or an entry of its
\* nested `properties` mapping -- the Document's content stays what was
\* loaded.
C14_ReturnedNodeIsolated == pc = "rewritten" => Content(heap, top_level) = document

\* A link to another file: it does not start with "#".
ToAnotherFile(link) == link.p = <<>> \/ link.p[1] # "#"
BareSchema(d) ==
    /\ Keys(d) \cap {"$ref", "oneOf", "anyOf", "allOf", "properties", "items"} = {}
    /\ ~(Has(d, "type") /\ Get(d, "type") \in {Str("object"), Str("array")})
\* rebuild_references on v meets a reference to another file before anything
\* else it has to resolve: v is such a reference, or an array of one, or an
\* object whose first property that is not a bare schema is one.
RECURSIVE MeetsAnotherFile(_, _)
MeetsAnotherFile(h, v) ==
    LET d == h[v.a]
        properties == IF Has(d, "properties") THEN h[Get(d, "properties").a] ELSE <<>>
    IN IF Has(d, "properties") \/ (Has(d, "type") /\ Get(d, "type") = Str("object"))
       THEN \E i \in 1..Len(properties) :
               /\ MeetsAnotherFile(h, properties[i].val)
               /\ \A before \in 1..(i - 1) : BareSchema(h[properties[before].val.a])
       ELSE IF Has(d, "items") \/ (Has(d, "type") /\ Get(d, "type") = Str("array"))
       THEN Has(d, "items") /\ MeetsAnotherFile(h, Get(d, "items"))
       ELSE /\ Keys(d) \cap {"oneOf", "anyOf", "allOf"} = {}
            /\ Has(d, "$ref")
            /\ ToAnotherFile(Get(d, "$ref"))

\* C15: a `$ref` that does not start with "#" fails with the
\* unsupported-reference error (NotImplementedError) whatever the Document
\* holds, and neither traverse_schema nor rebuild_references catches it:
\* the traversal that meets such a `$ref` ends with the error at once, with
\* no descriptor added and nothing changed, and the rebuild_references call
\* that meets one ends with the error and no result.
C15_AnotherFileNotSupported ==
    [][/\ (AtCall /\ Has(Block, "$ref") /\ ToAnotherFile(Get(Block, "$ref")))
            => /\ pc' = "idle"
               /\ err' = "NotImplementedError"
               /\ yielded' = yielded
               /\ heap' = heap
       /\ (CanCall /\ schema # None /\ last' = "rebuild_references" /\ calls' = calls + 1
             /\ MeetsAnotherFile(heap, schema))
            => /\ err' = "NotImplementedError"
               /\ result' = None
               /\ heap' = heap]_vars

\* C15's case: a traversal has ended with the error at the second property
\* of an object, after the descriptors of the object and its first property.
C15_Witness ==
    /\ pc = "idle"
    /\ last = "traverse_schema"
    /\ err = "NotImplementedError"
    /\ Len(yielded) >= 1
    /\ yielded[Len(yielded)].origin = "property"

\* The traversal is at a schema with a composition keyword and no `$ref`.
AtCombining == AtCall /\ ~Has(Block, "$ref") /\ Keys(Block) \cap {"oneOf", "anyOf", "allOf"} # {}
\* The object at address a lists the property `key` as required, and the
\* property's schema has a composition keyword.
RequiredCombination(a, key) ==
    /\ Has(heap[a], "required")
    /\ \E i \in 1..Len(Get(heap[a], "required").l) : Get(heap[a], "required").l[i] = Str(key)
    /\ Has(heap[a], "properties")
    /\ Has(heap[Get(heap[a], "properties").a], key)
    /\ LET property == heap[Get(heap[Get(heap[a], "properties").a], key).a]
       IN ~Has(property, "$ref") /\ Keys(property) \cap {"oneOf", "anyOf", "allOf"} # {}

\* C17: at a schema with oneOf / anyOf / allOf and no `$ref`, the traversal
\* goes on with one more call, on a new mapping (what
\* resolve_combining_schema returns), with the same name and required =
\* False, whatever the caller passed; and every descriptor yielded through
\* such a call has required = False.
C17_CombinationNotRequired ==
    [][/\ (AtCombining /\ pc' = "traverse")
            => /\ Len(stack') = Len(stack) + 1
               /\ stack'[Len(stack')].t = "call"
               /\ stack'[Len(stack')].name = Top.name
               /\ stack'[Len(stack')].is_required = FALSE
               /\ stack'[Len(stack')].block.a > Len(heap)
               /\ yielded' = yielded
       /\ \A i \in 1..Len(yielded') :
             yielded'[i].origin = "combining" => ~yielded'[i].required]_vars

\* C17's case: the descriptor of property p, which its object lists as
\* required and whose schema is a composition, has been yielded.
C17_Witness ==
    \E i \in 1..Len(yielded) :
        /\ yielded[i].origin = "combining"
        /\ yielded[i].name \in {"p", "body.p"}
        /\ ~yielded[i].required
        /\ \E a \in 1..Len(heap) : RequiredCombination(a, "p")

StartsWith(name, prefix) ==
    Len(prefix) <= Len(name) /\ SubSeq(name, 1, Len(prefix)) = prefix
\* The descriptor's path is that of the schema at `base`, or lies below it.
ComesFrom(name, base) ==
    name = base \/ StartsWith(name, base \o ".") \/ StartsWith(name, base \o "[]")
\* The path of the property a loop over an object's properties is at.
PropertyInProgress(frame) ==
    LET key == heap[frame.pa][frame.i - 1].key
    IN IF frame.name # "" THEN frame.name \o "." \o key ELSE key
\* The traversal is at an array schema (no `$ref`, no composition, no `not`).
AtArray ==
    /\ AtCall
    /\ Keys(Block) \cap {"$ref", "oneOf", "anyOf", "allOf", "not"} = {}
    /\ IF Has(Block, "type") THEN Get(Block, "type") = Str("array")
       ELSE ~Has(Block, "properties") /\ Has(Block, "items")

\* C18: the descriptors come in depth-first pre-order.  A descriptor is
\* yielded only from the property in progress of every object whose
\* properties are being gone through (so that all of property p's come
\* before any of a later property q's); the descriptor of an object comes
\* before every descriptor below its path; an array is never yielded
\* itself: the traversal goes on with its items at the path with "[]"
\* added, and no descriptor's schema is an array when it is yielded.
C18_DepthFirstPreOrder ==
    [][/\ Len(yielded') = Len(yielded) + 1
            => LET descriptor == yielded'[Len(yielded')]
               IN /\ \A n \in 1..Len(stack) :
                        stack[n].t = "iter"
                            => /\ stack[n].i > 1
                               /\ ComesFrom(descriptor.name, PropertyInProgress(stack[n]))
                  /\ GetSchemaType(heap'[descriptor.schema.a]) # Str("array")
       /\ \A i, j \in 1..Len(yielded') :
             (yielded'[i].via = "object" /\ StartsWith(yielded'[j].name, yielded'[i].name \o "."))
                 => i < j
       /\ (AtArray /\ pc' = "traverse")
            => /\ yielded' = yielded
               /\ stack'[Len(stack')].t = "call"
               /\ stack'[Len(stack')].name = Top.name \o "[]"
               /\ stack'[Len(stack')].block = Get(Block, "items")]_vars

\* C18's case: the traversal of an object at "body" whose first property is
\* an array and whose second is a scalar has ended.
C18_Witness ==
    /\ Returned("traverse_schema")
    /\ Len(yielded) = 3
    /\ yielded[1].via = "object"
    /\ yielded[1].name = "body"
    /\ yielded[2].name = "body.p[]"
    /\ yielded[3].name = "body.q"

====
